---- MODULE Spec2Model ----
(***************************************************************************)
(* ProdCalendar (src/__init__.py): the three-tier lookup of a yearly       *)
(* calendar document (in-memory holder -> on-disk file -> remote fetch)    *)
(* with its TTL freshness tests.                                           *)
(*                                                                         *)
(* Time is counted in ticks, TicksPerSec of them to a second.  The file    *)
(* system keeps a file's modification time to the tick; the document's     *)
(* downloaded_dt_utc is written with '%Y-%m-%d %H:%M:%S' and so keeps      *)
(* whole seconds only.  A call runs at one instant: the clock moves only   *)
(* between calls (Tick).                                                   *)
(***************************************************************************)
EXTENDS Integers, Sequences, FiniteSets, TLC

\* ------------------------------------------------------------- bounds
MaxTime == 3
TicksPerSec == 2
\* The longest list of days of a month given to the normalisation alone.
MaxPieces == 2

\* The months and the days of a month that are asked about: they take in a
\* Saturday, a Sunday and working days of the week.
Months == 1..2
Days == 1..3

\* The calendar years asked for.  Two are enough for the holder to keep
\* another year than the one asked for; each has its own cache file.
Years == {2025, 2026}
\* cacheTTL: no time at all, or one second.
TTLs == {0, TicksPerSec}

\* ------------------------------------------------------------- values
StatusOK == 200
NoStamp == -1

\* None: an empty holder, a call that returned nothing.
NoDoc == [year |-> 0, downloaded_dt_utc |-> NoStamp, hasMonths |-> FALSE,
          months |-> <<>>]

NoFile == [exists |-> FALSE, mtime |-> 0, parses |-> FALSE, data |-> NoDoc]

VARIABLES
    now,          \* the clock, in ticks
    constructed,  \* whether ProdCalendar.__init__ has returned
    isCache,      \* self.isCache
    cacheTTL,     \* self.cacheTTL, in ticks
    _cache_data,  \* self._cache_data: the in-memory holder (NoDoc = None)
    disk,         \* cache file of each year: [exists, mtime, parses, data]
    last,         \* the latest call: what was asked and how it ended
    overrided_dates,  \* self.overrided_dates: date -> 0 (working) or 1
    answer,       \* the latest isWorkDay / isHoliday call and its result
    entry,        \* a month of a response body: m['days'], m['days_int']
    threads,      \* each concurrent caller of _getYear: where it is, its locals
    lock          \* the callers' own lock: whether they use one, who holds it

vars == <<now, constructed, isCache, cacheTTL, _cache_data, disk, last,
          overrided_dates, answer, entry, threads, lock>>

\* What the calls of the cache manager leave alone.
aside == <<overrided_dates, answer, entry, threads, lock>>

\* ------------------------------------------------------------- remote
\* What requests.get(url) can give for year `year`: a transport error, a
\* non-200 status, a body that is no JSON, and JSON documents with or
\* without the 'year' and 'months' keys.
Response(raises, status, json, hasYear, year, hasMonths) ==
    [raises |-> raises, status |-> status, json |-> json,
     hasYear |-> hasYear, year |-> year, hasMonths |-> hasMonths]

OtherYear(year) == CHOOSE y \in Years \cup {0} : y # year /\ (year # 0 => y # 0)

Responses(year) ==
    { Response(TRUE, 0, FALSE, FALSE, 0, FALSE),
      Response(FALSE, 404, FALSE, FALSE, 0, FALSE),
      Response(FALSE, StatusOK, FALSE, FALSE, 0, FALSE),
      Response(FALSE, StatusOK, TRUE, FALSE, 0, TRUE),
      Response(FALSE, StatusOK, TRUE, TRUE, OtherYear(year), TRUE),
      Response(FALSE, StatusOK, TRUE, TRUE, year, FALSE),
      Response(FALSE, StatusOK, TRUE, TRUE, year, TRUE) }

RemoteFails(resp) == resp.raises \/ resp.status # StatusOK

\* A call that sends no request is the same call whatever the remote would
\* have answered: it is listed once.
Asked(o, year, resp) ==
    o.fetches > 0 \/ resp = Response(FALSE, StatusOK, TRUE, TRUE, year, TRUE)

\* ------------------------------------------------------------- results
\* The outcome of a method: the exception raised ("none" if it returned),
\* the value returned, the holder and the disk it leaves, the number of
\* HTTP requests it made and the tier that answered.
Outcome(exc, val, mem, dsk, fetches, tier) ==
    [exc |-> exc, val |-> val, mem |-> mem, disk |-> dsk,
     fetches |-> fetches, tier |-> tier]

\* datetime.strftime / strptime with CACHE_DWNLD_DT_FORMAT: whole seconds.
CACHE_DWNLD_DT_FORMAT(t) == (t \div TicksPerSec) * TicksPerSec

\* The cache file of a year: CACHE_FILE_NAME % (cache_dir, year, 'RU').
cacheFPath(year) == year

\* ------------------------------------------------------------- calendar
\* A string is the sequence of its characters.
Digits == <<"0", "1", "2", "3", "4", "5", "6", "7", "8", "9">>

isdigit(c) == \E i \in DOMAIN Digits : Digits[i] = c

\* int(s) of a non-empty string of digits.
RECURSIVE int(_)
int(s) ==
    IF s = <<>> THEN 0
    ELSE int(SubSeq(s, 1, Len(s) - 1)) * Len(Digits)
         + (CHOOSE i \in DOMAIN Digits : Digits[i] = s[Len(s)]) - 1

endswith(x, c) == Len(x) > 0 /\ x[Len(x)] = c

\* s.split(sep): the pieces between the separators; ''.split(',') is [''].
RECURSIVE split(_, _)
split(s, sep) ==
    IF \A i \in DOMAIN s : s[i] # sep THEN <<s>>
    ELSE LET i == CHOOSE k \in DOMAIN s :
                      s[k] = sep /\ \A j \in 1..(k - 1) : s[j] # sep
         IN  <<SubSeq(s, 1, i - 1)>> \o split(SubSeq(s, i + 1, Len(s)), sep)

\* sep.join(parts)
RECURSIVE join(_, _)
join(parts, sep) ==
    IF parts = <<>> THEN <<>>
    ELSE IF Len(parts) = 1 THEN parts[1]
    ELSE parts[1] \o <<sep>> \o join(Tail(parts), sep)

\* The list comprehension of line 117 over one month's 'days' string: the
\* pieces that do not end in '*', each turned into the integer of its
\* digits.  int('') raises ValueError.
days_int(days) ==
    LET kept == SelectSeq(split(days, ","), LAMBDA x : ~endswith(x, "*"))
        digits == [i \in DOMAIN kept |-> SelectSeq(kept[i], isdigit)]
    IN  IF \E i \in DOMAIN digits : digits[i] = <<>>
        THEN [exc |-> "ValueError", val |-> <<>>]
        ELSE [exc |-> "none", val |-> [i \in DOMAIN digits |-> int(digits[i])]]

\* The 'months' list the remote publishes for a year, cut to the months and
\* days asked about: day d of month m is listed plain, with '+', with '*'
\* (a shortened working day) or not at all; the last month of an even year
\* is not published yet.
Listed(year, month) ==
    LET piece(d) == CASE (year + month + d) % 4 = 0 -> <<<<Digits[d + 1]>>>>
                      [] (year + month + d) % 4 = 1 -> <<<<Digits[d + 1], "+">>>>
                      [] (year + month + d) % 4 = 2 -> <<<<Digits[d + 1], "*">>>>
                      [] OTHER -> <<>>
        upto[d \in {0} \cup Days] ==
            IF d = 0 THEN <<>> ELSE upto[d - 1] \o piece(d)
    IN  upto[Cardinality(Days)]

Calendar(year) ==
    LET published == IF year % 2 = 0 THEN Cardinality(Months) - 1
                     ELSE Cardinality(Months)
    IN  [m \in 1..published |-> [month |-> m, days |-> join(Listed(year, m), ",")]]

\* Lines 116-117: each month gets its 'days_int'; one month that does not
\* convert fails the whole list.  Of a month the document keeps here what is
\* read later, 'month' and 'days_int'.
Normalized(months) ==
    IF \E i \in DOMAIN months : days_int(months[i].days).exc # "none"
    THEN [exc |-> "ValueError", val |-> <<>>]
    ELSE [exc |-> "none",
          val |-> [i \in DOMAIN months |->
                     [month |-> months[i].month,
                      days_int |-> days_int(months[i].days).val]]]

\* Lines 116-117 over the list published for each year.
NormalizedCalendar == [year \in Years |-> Normalized(Calendar(year))]

\* _is_cache_file_valid with > for >=: a file exactly TTL old is stale.
_is_cache_file_valid_strict(f, ttl, t) ==
    IF ~f.exists THEN FALSE
    ELSE f.mtime + ttl > t

\* _is_cache_file_valid without the TTL: any file there is taken.
_is_cache_file_valid_any_age(f, ttl, t) == f.exists

_is_cache_file_valid(f, ttl, t) ==
    IF ~f.exists THEN FALSE
    ELSE f.mtime + ttl >= t

\* _is_cache_mem_data_valid without the TTL: any document held is taken.
_is_cache_mem_data_valid_any_age(mem, ttl, t) ==
    ~(mem = NoDoc \/ mem.downloaded_dt_utc = NoStamp)

_is_cache_mem_data_valid(mem, ttl, t) ==
    IF mem = NoDoc \/ mem.downloaded_dt_utc = NoStamp THEN FALSE
    ELSE mem.downloaded_dt_utc + ttl >= t

_downloadYear(year, resp, mem, dsk, t) ==
    IF resp.raises THEN
        Outcome("ProdCalServiceNotRespond", NoDoc, mem, dsk, 1, "none")
    ELSE IF resp.status # StatusOK THEN
        Outcome("ProdCalServiceNotRespond", NoDoc, mem, dsk, 1, "none")
    ELSE IF ~resp.json THEN
        Outcome("JSONDecodeError", NoDoc, mem, dsk, 1, "none")
    ELSE IF ~resp.hasYear THEN
        Outcome("KeyError", NoDoc, mem, dsk, 1, "none")
    ELSE IF year # resp.year \/ ~resp.hasMonths THEN
        Outcome("ProdCalError", NoDoc, mem, dsk, 1, "none")
    ELSE IF NormalizedCalendar[resp.year].exc # "none" THEN
        Outcome("ValueError", NoDoc, mem, dsk, 1, "none")
    ELSE
        Outcome("none",
                [year |-> resp.year,
                 downloaded_dt_utc |-> CACHE_DWNLD_DT_FORMAT(t),
                 hasMonths |-> TRUE,
                 months |-> NormalizedCalendar[resp.year].val],
                mem, dsk, 1, "net")

\* json.dump of the months as the remote sent them, without the 'days_int'
\* lists added by line 117.
JsonDump_as_received(calend, t) ==
    [exists |-> TRUE, mtime |-> t, parses |-> TRUE,
     data |-> [calend EXCEPT !.months =
                  [i \in DOMAIN @ |-> [@[i] EXCEPT !.days_int = <<>>]]]]

\* json.dump to the file, which takes the current time as its mtime; a
\* document of numbers, strings, lists and string-keyed dicts is read back
\* by json.load as it was written.
JsonDump(calend, t) ==
    [exists |-> TRUE, mtime |-> t, parses |-> TRUE, data |-> calend]

\* _write_cache without line 133: the document is written but not kept.
_write_cache_not_kept(year, cache_file, resp, mem, dsk, t) ==
    LET d == _downloadYear(year, resp, mem, dsk, t) IN
    IF d.exc # "none" THEN d
    ELSE Outcome("none", d.val, mem,
                 [dsk EXCEPT ![cache_file] = JsonDump(d.val, t)], 1, "net")

\* _write_cache asking the remote a second time when it does not respond.
_write_cache_retry(year, cache_file, resp, mem, dsk, t) ==
    LET d == _downloadYear(year, resp, mem, dsk, t)
        e == _downloadYear(year, resp, mem, dsk, t)
    IN  IF d.exc = "ProdCalServiceNotRespond" THEN
            [e EXCEPT !.fetches = d.fetches + @]
        ELSE IF d.exc # "none" THEN d
        ELSE Outcome("none", d.val, d.val,
                     [dsk EXCEPT ![cache_file] = JsonDump(d.val, t)], 1, "net")

\* _write_cache opening the file for writing before the download: a failed
\* download leaves an empty file.
_write_cache_open_first(year, cache_file, resp, mem, dsk, t) ==
    LET d == _downloadYear(year, resp, mem, dsk, t) IN
    IF d.exc # "none" THEN
        [d EXCEPT !.disk = [dsk EXCEPT ![cache_file] =
            [exists |-> TRUE, mtime |-> t, parses |-> FALSE, data |-> NoDoc]]]
    ELSE Outcome("none", d.val, d.val,
                 [dsk EXCEPT ![cache_file] = JsonDump(d.val, t)], 1, "net")

\* _write_cache without lines 131-132: the document is kept in the holder
\* but not written to the file.
_write_cache_not_written(year, cache_file, resp, mem, dsk, t) ==
    LET d == _downloadYear(year, resp, mem, dsk, t) IN
    IF d.exc # "none" THEN d
    ELSE Outcome("none", d.val, d.val, dsk, 1, "net")

_write_cache(year, cache_file, resp, mem, dsk, t) ==
    LET d == _downloadYear(year, resp, mem, dsk, t) IN
    IF d.exc # "none" THEN d
    ELSE Outcome("none", d.val, d.val,
                 [dsk EXCEPT ![cache_file] = JsonDump(d.val, t)], 1, "net")

\* cache_year taking no notice of forced: a file within its TTL is kept.
cache_year_unforced(year, forced, resp, mem, dsk, ttl, t) ==
    LET cache_file == cacheFPath(year) IN
    IF ~dsk[cache_file].exists THEN
        _write_cache(year, cache_file, resp, mem, dsk, t)
    ELSE IF ~_is_cache_file_valid(dsk[cache_file], ttl, t) THEN
        _write_cache(year, cache_file, resp, mem, dsk, t)
    ELSE Outcome("none", NoDoc, mem, dsk, 0, "none")

\* cache_year without the tests of lines 123 and 125: every call fetches.
cache_year_every_time(year, forced, resp, mem, dsk, ttl, t) ==
    _write_cache(year, cacheFPath(year), resp, mem, dsk, t)

cache_year(year, forced, resp, mem, dsk, ttl, t) ==
    LET cache_file == cacheFPath(year) IN
    IF forced \/ ~dsk[cache_file].exists THEN
        _write_cache(year, cache_file, resp, mem, dsk, t)
    ELSE IF ~_is_cache_file_valid(dsk[cache_file], ttl, t) THEN
        _write_cache(year, cache_file, resp, mem, dsk, t)
    ELSE Outcome("none", NoDoc, mem, dsk, 0, "none")

_get_cache(year, mem, dsk, ttl, t) ==
    LET cache_file == cacheFPath(year) IN
    IF ~dsk[cache_file].exists \/ ~_is_cache_file_valid(dsk[cache_file], ttl, t) THEN
        Outcome("none", NoDoc, mem, dsk, 0, "none")
    ELSE IF ~dsk[cache_file].parses THEN
        Outcome("JSONDecodeError", NoDoc, mem, dsk, 0, "none")
    ELSE
        Outcome("none", dsk[cache_file].data, dsk[cache_file].data, dsk, 0, "disk")

\* _getYear without the year test of line 84: the holder answers for any
\* year while its document is within its TTL.
_getYear_any_year(year, resp, cache, mem, dsk, ttl, t) ==
    IF cache THEN
        IF _is_cache_mem_data_valid(mem, ttl, t) THEN
            Outcome("none", mem, mem, dsk, 0, "mem")
        ELSE
            LET cache_file == cacheFPath(year)
                c == _get_cache(year, mem, dsk, ttl, t)
            IN  IF c.exc # "none" THEN c
                ELSE IF ~_is_cache_file_valid(dsk[cache_file], ttl, t) \/ c.val = NoDoc THEN
                    LET w == cache_year(year, TRUE, resp, c.mem, c.disk, ttl, t)
                    IN  [w EXCEPT !.fetches = c.fetches + @]
                ELSE c
    ELSE _downloadYear(year, resp, mem, dsk, t)

\* _getYear taking no notice of isCache: the tiers are always consulted.
_getYear_always_cached(year, resp, cache, mem, dsk, ttl, t) ==
    IF _is_cache_mem_data_valid(mem, ttl, t) /\ mem.year = year THEN
        Outcome("none", mem, mem, dsk, 0, "mem")
    ELSE
        LET cache_file == cacheFPath(year)
            c == _get_cache(year, mem, dsk, ttl, t)
        IN  IF c.exc # "none" THEN c
            ELSE IF ~_is_cache_file_valid(dsk[cache_file], ttl, t) \/ c.val = NoDoc THEN
                LET w == cache_year(year, TRUE, resp, c.mem, c.disk, ttl, t)
                IN  [w EXCEPT !.fetches = c.fetches + @]
            ELSE c

_getYear(year, resp, cache, mem, dsk, ttl, t) ==
    IF cache THEN
        IF _is_cache_mem_data_valid(mem, ttl, t) /\ mem.year = year THEN
            Outcome("none", mem, mem, dsk, 0, "mem")
        ELSE
            LET cache_file == cacheFPath(year)
                c == _get_cache(year, mem, dsk, ttl, t)
            IN  IF c.exc # "none" THEN c
                ELSE IF ~_is_cache_file_valid(dsk[cache_file], ttl, t) \/ c.val = NoDoc THEN
                    LET w == cache_year(year, TRUE, resp, c.mem, c.disk, ttl, t)
                    IN  [w EXCEPT !.fetches = c.fetches + @]
                ELSE c
    ELSE _downloadYear(year, resp, mem, dsk, t)

\* ------------------------------------------------------------- queries
Dates == [year : Years, month : Months, day : Days]

\* date.weekday(): Monday is 0, Sunday is 6; from the day's ordinal, as
\* datetime computes it.
is_leap(year) == year % 4 = 0 /\ (year % 100 # 0 \/ year % 400 = 0)

DaysInMonth(year, month) ==
    IF month = 2 /\ is_leap(year) THEN 29
    ELSE <<31, 28, 31, 30, 31, 30, 31, 31, 30, 31, 30, 31>>[month]

toordinal(day) ==
    LET y == day.year - 1
        before[m \in 1..12] ==
            IF m = 1 THEN 0 ELSE before[m - 1] + DaysInMonth(day.year, m - 1)
    IN  y * 365 + (y \div 4) - (y \div 100) + (y \div 400)
        + before[day.month] + day.day

weekday(day) == (toordinal(day) + 6) % 7

\* Lines 70-76 of isWorkDay: the answer a document gives for a day.
isWorkDayBy(cal_year, day) ==
    IF ~cal_year.hasMonths THEN [exc |-> "KeyError", val |-> FALSE]
    ELSE LET found == { i \in DOMAIN cal_year.months :
                            cal_year.months[i].month = day.month }
         IN  IF found = {} THEN [exc |-> "none", val |-> weekday(day) < 5]
             ELSE LET cal_m == cal_year.months[
                                  CHOOSE i \in found : \A j \in found : i <= j]
                  IN  [exc |-> "none",
                       val |-> ~(\E k \in DOMAIN cal_m.days_int :
                                    cal_m.days_int[k] = day.day)]

\* isWorkDay with lines 67-68 after the lookup of the year: an overridden
\* date still resolves the cache.
isWorkDay_year_first(day, resp, overrides, cache, mem, dsk, ttl, t) ==
    LET y == _getYear(day.year, resp, cache, mem, dsk, ttl, t) IN
    IF y.exc # "none" THEN y
    ELSE IF day \in DOMAIN overrides THEN [y EXCEPT !.val = overrides[day] = 0]
    ELSE [y EXCEPT !.exc = isWorkDayBy(y.val, day).exc,
                   !.val = isWorkDayBy(y.val, day).val]

isWorkDay(day, resp, overrides, cache, mem, dsk, ttl, t) ==
    IF day \in DOMAIN overrides THEN
        Outcome("none", overrides[day] = 0, mem, dsk, 0, "override")
    ELSE
        LET y == _getYear(day.year, resp, cache, mem, dsk, ttl, t) IN
        IF y.exc # "none" THEN y
        ELSE [y EXCEPT !.exc = isWorkDayBy(y.val, day).exc,
                       !.val = isWorkDayBy(y.val, day).val]

\* isHoliday deciding by the document alone, without the overrides.
isHoliday_by_document(day, resp, overrides, cache, mem, dsk, ttl, t) ==
    LET y == _getYear(day.year, resp, cache, mem, dsk, ttl, t) IN
    IF y.exc # "none" THEN y
    ELSE [y EXCEPT !.exc = isWorkDayBy(y.val, day).exc,
                   !.val = ~isWorkDayBy(y.val, day).val]

\* `not` of line 80, of a call that returned.
Not(w) == IF w.exc # "none" THEN w ELSE [w EXCEPT !.val = ~@]

isHoliday(day, resp, overrides, cache, mem, dsk, ttl, t) ==
    Not(isWorkDay(day, resp, overrides, cache, mem, dsk, ttl, t))

\* ------------------------------------------------------------- state
\* What a call found when it began, kept with its result: whether the
\* holder had a document of that year within its TTL, and the year's file
\* ("absent", "stale" by its mtime, "corrupt" if within its TTL but not a
\* document of that year, else "fresh").
HolderBefore(year) ==
    /\ _cache_data # NoDoc
    /\ _cache_data.year = year
    /\ _cache_data.downloaded_dt_utc + cacheTTL >= now

FileBefore(year) ==
    IF year \notin Years THEN "absent"
    ELSE IF ~disk[cacheFPath(year)].exists THEN "absent"
    ELSE IF disk[cacheFPath(year)].mtime + cacheTTL < now THEN "stale"
    ELSE IF \/ ~disk[cacheFPath(year)].parses
            \/ disk[cacheFPath(year)].data.year # year
            \/ ~disk[cacheFPath(year)].data.hasMonths THEN "corrupt"
    ELSE "fresh"

\* Whether the call before this one was a _getYear of the same year that
\* found neither tier, fetched, and returned a document still within its TTL.
AfterFetch(year) ==
    /\ last.op = "_getYear" /\ last.year = year
    /\ ~last.holder /\ last.file = "absent"
    /\ last.exc = "none" /\ last.fetches = 1
    /\ last.val.downloaded_dt_utc + cacheTTL >= now

Call(op, year, forced, holder, file, again, o) ==
    [op |-> op, year |-> year, forced |-> forced,
     holder |-> holder, file |-> file, again |-> again,
     exc |-> o.exc, val |-> o.val, fetches |-> o.fetches, tier |-> o.tier]

NoCall ==
    [op |-> "none", year |-> 0, forced |-> FALSE,
     holder |-> FALSE, file |-> "absent", again |-> FALSE,
     exc |-> "none", val |-> NoDoc, fetches |-> 0, tier |-> "none"]

\* overrideDates = {}: no date is overridden.
NoOverrides == << >>

\* The maps given as overrideDates: none, or the first two days of the
\* first month of the first year, each marked working (0) or not (1).
Overridable == { d \in Dates : /\ \A y \in Years : d.year <= y
                              /\ d.month = 1 /\ d.day <= 2 }

OverrideMaps ==
    {NoOverrides} \cup { m \in [Overridable -> {0, 1}] :
                             \A d \in Overridable : m[d] = d.day % 2 }

Answer(op, day, o) ==
    [op |-> op, day |-> day, exc |-> o.exc, val |-> o.val]

NoAnswer == [op |-> "none", day |-> 0, exc |-> "none", val |-> FALSE]

\* No concurrent callers, no lock of theirs.
NoThreads == << >>

NoLock == [used |-> FALSE, owner |-> 0]

\* No month is being normalised.
NoEntry == [days |-> <<>>, exc |-> "none", days_int |-> <<>>]

Init ==
    /\ now = 0
    /\ constructed = FALSE
    /\ isCache = FALSE
    /\ cacheTTL \in TTLs
    /\ _cache_data = NoDoc
    /\ disk = [y \in Years |-> NoFile]
    /\ last = NoCall
    /\ overrided_dates = NoOverrides
    /\ answer = NoAnswer
    /\ entry = NoEntry
    /\ threads = NoThreads
    /\ lock = NoLock

\* ProdCalendar(cache, cache_dir, preload_year, cacheTTL): preload_year 0
\* stands for a falsy preload_year.  An exception leaves no instance.  Every
\* instance of one behaviour is given the same cacheTTL, chosen in Init.
Construct(cache, preload_year, resp) ==
    /\ ~constructed
    /\ LET o == IF cache /\ preload_year # 0
                THEN cache_year(preload_year, FALSE, resp, NoDoc, disk, cacheTTL, now)
                ELSE Outcome("none", NoDoc, NoDoc, disk, 0, "none")
       IN  /\ Asked(o, preload_year, resp)
           /\ isCache' = cache
           /\ constructed' = (o.exc = "none")
           /\ _cache_data' = o.mem
           /\ disk' = o.disk
           /\ last' = Call("init", preload_year, FALSE, FALSE,
                           FileBefore(preload_year), FALSE, o)
    /\ UNCHANGED <<now, cacheTTL>>
    /\ UNCHANGED aside

GetYear(year, resp) ==
    /\ constructed
    /\ LET o == _getYear(year, resp, isCache, _cache_data, disk, cacheTTL, now)
       IN  /\ Asked(o, year, resp)
           /\ _cache_data' = o.mem
           /\ disk' = o.disk
           /\ last' = Call("_getYear", year, FALSE, HolderBefore(year),
                           FileBefore(year), AfterFetch(year), o)
    /\ UNCHANGED <<now, constructed, isCache, cacheTTL>>
    /\ UNCHANGED aside

CacheYear(year, forced, resp) ==
    /\ constructed
    /\ LET o == cache_year(year, forced, resp, _cache_data, disk, cacheTTL, now)
       IN  /\ Asked(o, year, resp)
           /\ _cache_data' = o.mem
           /\ disk' = o.disk
           /\ last' = Call("cache_year", year, forced, HolderBefore(year),
                           FileBefore(year), FALSE, o)
    /\ UNCHANGED <<now, constructed, isCache, cacheTTL>>
    /\ UNCHANGED aside

\* The clock advances between calls.
Tick ==
    /\ now < MaxTime
    /\ now' = now + 1
    /\ UNCHANGED <<constructed, isCache, cacheTTL, _cache_data, disk, last>>
    /\ UNCHANGED aside

\* The process ends; a later one constructs a new instance over the same
\* cache directory.
Exit ==
    /\ constructed
    /\ constructed' = FALSE
    /\ _cache_data' = NoDoc
    /\ last' = NoCall
    /\ answer' = NoAnswer
    /\ UNCHANGED <<now, isCache, cacheTTL, disk, overrided_dates, entry,
                   threads, lock>>

\* Outside the program: the content of a year's file is damaged in place
\* while no call runs.  It is left as text that is no JSON, as the document
\* of another year, or as a document without its month list.  One file is
\* damaged at a time.
Damaged(f, year) ==
    { [f EXCEPT !.parses = FALSE, !.data = NoDoc],
      [f EXCEPT !.data.year = OtherYear(year)],
      [f EXCEPT !.data.hasMonths = FALSE, !.data.months = <<>>] }

CorruptFile(year, f) ==
    /\ disk[cacheFPath(year)].exists
    /\ \A y \in Years : disk[cacheFPath(y)].exists => disk[cacheFPath(y)] \notin Damaged(disk[cacheFPath(y)], y)
    /\ disk' = [disk EXCEPT ![cacheFPath(year)] = f]
    /\ UNCHANGED <<now, constructed, isCache, cacheTTL, _cache_data, last>>
    /\ UNCHANGED aside

Calls ==
    \/ \E cache \in BOOLEAN, p \in Years \cup {0} :
         \E resp \in Responses(p) : Construct(cache, p, resp)
    \/ \E y \in Years : \E resp \in Responses(y) : GetYear(y, resp)
    \/ \E y \in Years, forced \in BOOLEAN :
         \E resp \in Responses(y) : CacheYear(y, forced, resp)
    \/ Exit

\* The program as the only writer of its cache directory.
Next ==
    \/ Calls
    \/ Tick

Spec == Init /\ [][Next]_vars

\* The program over a cache directory whose files can be damaged.
NextEnv ==
    \/ Calls
    \/ Tick
    \/ \E y \in Years : \E f \in Damaged(disk[cacheFPath(y)], y) : CorruptFile(y, f)

SpecEnv == Init /\ [][NextEnv]_vars

\* ------------------------------------------------------------- days asked
\* The same program with a map of overridden dates, asked about days.
InitQ ==
    /\ now = 0
    /\ constructed = FALSE
    /\ isCache = FALSE
    /\ cacheTTL \in TTLs
    /\ _cache_data = NoDoc
    /\ disk = [y \in Years |-> NoFile]
    /\ last = NoCall
    /\ overrided_dates \in OverrideMaps
    /\ answer = NoAnswer
    /\ entry = NoEntry
    /\ threads = NoThreads
    /\ lock = NoLock

\* isWorkDay(day) and isHoliday(day); `last` stays the latest call made on
\* the cache from outside.
Query(op, day, resp, o) ==
    /\ constructed
    /\ Asked(o, day.year, resp)
    /\ _cache_data' = o.mem
    /\ disk' = o.disk
    /\ answer' = Answer(op, day, o)
    /\ UNCHANGED <<now, constructed, isCache, cacheTTL, last, overrided_dates,
                   entry, threads, lock>>

IsWorkDay(day, resp) ==
    Query("isWorkDay", day, resp,
          isWorkDay(day, resp, overrided_dates, isCache, _cache_data, disk,
                    cacheTTL, now))

IsHoliday(day, resp) ==
    Query("isHoliday", day, resp,
          isHoliday(day, resp, overrided_dates, isCache, _cache_data, disk,
                    cacheTTL, now))

\* The remote while days are asked about: it answers well or not at all.
Remote(year) ==
    { resp \in Responses(year) :
        resp.raises \/ resp = Response(FALSE, StatusOK, TRUE, TRUE, year, TRUE) }

NextQ ==
    \/ \E cache \in BOOLEAN, p \in Years \cup {0} :
         \E resp \in Responses(p) : Construct(cache, p, resp)
    \/ \E day \in Dates : \E resp \in Remote(day.year) : IsWorkDay(day, resp)
    \/ \E day \in Dates : \E resp \in Remote(day.year) : IsHoliday(day, resp)
    \/ Tick

SpecQ == InitQ /\ [][NextQ]_vars

\* ------------------------------------------------------------- normalisation
\* Line 117 alone, over the 'days' string of one month as the remote can
\* send it: up to MaxPieces days joined by ',', each a number of one or two
\* digits, plain or followed by '+' or '*'.  No day at all is the empty
\* string.
Pieces ==
    { digits \o mark : digits \in {<<"3">>, <<"9">>, <<"1", "4">>},
                       mark \in {<<>>, <<"+">>, <<"*">>} }

PieceLists == UNION { [1..n -> Pieces] : n \in 0..MaxPieces }

InitN ==
    /\ now = 0
    /\ constructed = FALSE
    /\ isCache = FALSE
    /\ cacheTTL \in TTLs
    /\ _cache_data = NoDoc
    /\ disk = [y \in Years |-> NoFile]
    /\ last = NoCall
    /\ overrided_dates = NoOverrides
    /\ answer = NoAnswer
    /\ \E ps \in PieceLists :
         entry = [days |-> join(ps, ","), exc |-> "pending", days_int |-> <<>>]
    /\ threads = NoThreads
    /\ lock = NoLock

NormalizeMonth ==
    /\ entry.exc = "pending"
    /\ entry' = [days |-> entry.days,
                 exc |-> days_int(entry.days).exc,
                 days_int |-> days_int(entry.days).val]
    /\ UNCHANGED <<now, constructed, isCache, cacheTTL, _cache_data, disk,
                   last, overrided_dates, answer, threads, lock>>

NextN == NormalizeMonth

SpecN == InitN /\ [][NextN]_vars

\* ------------------------------------------------------------- threads
\* Two callers of _getYear on one instance with caching enabled, each asking
\* for its own year again and again, their steps interleaved at the reads and
\* writes of self._cache_data and of the files.  The class has no lock; the
\* callers may put each call under a lock of their own (lock.used).  The
\* clock stands still: every document and file stays within its TTL.
Callers == 1..Cardinality(Years)

YearOf(i) == CHOOSE y \in Years : Cardinality({z \in Years : z < y}) = i - 1

Thread(pc, year, cal_year, exc, ret) ==
    [pc |-> pc, year |-> year, cal_year |-> cal_year, exc |-> exc, ret |-> ret]

InitC ==
    /\ now = 0
    /\ constructed = TRUE
    /\ isCache = TRUE
    /\ cacheTTL \in TTLs
    /\ _cache_data = NoDoc
    /\ disk = [y \in Years |-> NoFile]
    /\ last = NoCall
    /\ overrided_dates = NoOverrides
    /\ answer = NoAnswer
    /\ entry = NoEntry
    /\ threads = [i \in Callers |-> Thread("idle", YearOf(i), NoDoc, "none", NoDoc)]
    /\ lock \in {[used |-> u, owner |-> 0] : u \in BOOLEAN}

Still == <<now, constructed, isCache, cacheTTL, last, overrided_dates,
           answer, entry>>

\* Caller i moves to pc, with its locals and the lock as given.
Goes(i, pc, cal_year, exc, ret, owner) ==
    /\ threads' = [threads EXCEPT ![i] = Thread(pc, @.year, cal_year, exc, ret)]
    /\ lock' = [lock EXCEPT !.owner = owner]
    /\ UNCHANGED Still

\* Caller i leaves _getYear, by return or by an exception.
Leaves(i, exc, ret) ==
    Goes(i, "idle", NoDoc, exc, ret, IF lock.used THEN 0 ELSE lock.owner)

At(i, pc) == i \in DOMAIN threads /\ threads[i].pc = pc

\* The call begins; under the callers' lock, when no other call runs.
Begin(i) ==
    /\ At(i, "idle")
    /\ lock.used => lock.owner = 0
    /\ Goes(i, "mem_valid", NoDoc, "none", NoDoc, IF lock.used THEN i ELSE lock.owner)
    /\ UNCHANGED <<_cache_data, disk>>

\* Line 84, left operand: self._is_cache_mem_data_valid().
MemValid(i) ==
    /\ At(i, "mem_valid")
    /\ Goes(i, IF _is_cache_mem_data_valid(_cache_data, cacheTTL, now)
               THEN "year_test" ELSE "get_cache",
            NoDoc, "none", NoDoc, lock.owner)
    /\ UNCHANGED <<_cache_data, disk>>

\* Line 84 without its right operand: any year in the holder passes.
YearIs_any(mem, year) == TRUE

\* Line 84, right operand: self._cache_data['year'] == year.
YearIs(mem, year) == mem.year = year

YearTest(i) ==
    /\ At(i, "year_test")
    /\ Goes(i, IF YearIs(_cache_data, threads[i].year)
               THEN "return_holder" ELSE "get_cache",
            NoDoc, "none", NoDoc, lock.owner)
    /\ UNCHANGED <<_cache_data, disk>>

\* Line 85: return self._cache_data.
ReturnHolder(i) ==
    /\ At(i, "return_holder")
    /\ Leaves(i, "none", _cache_data)
    /\ UNCHANGED <<_cache_data, disk>>

\* Line 87, _get_cache up to json.load (lines 138-141).
GetCache(i) ==
    /\ At(i, "get_cache")
    /\ LET f == disk[cacheFPath(threads[i].year)] IN
       IF ~f.exists \/ ~_is_cache_file_valid(f, cacheTTL, now)
       THEN Goes(i, "file_valid", NoDoc, "none", NoDoc, lock.owner)
       ELSE IF ~f.parses THEN Leaves(i, "JSONDecodeError", NoDoc)
       ELSE Goes(i, "keep_loaded", f.data, "none", NoDoc, lock.owner)
    /\ UNCHANGED <<_cache_data, disk>>

\* Line 142: self._cache_data = calend.
KeepLoaded(i) ==
    /\ At(i, "keep_loaded")
    /\ _cache_data' = threads[i].cal_year
    /\ Goes(i, "file_valid", threads[i].cal_year, "none", NoDoc, lock.owner)
    /\ UNCHANGED disk

\* Line 88: not self._is_cache_file_valid(cache_file) or cal_year is None.
FileValid(i) ==
    /\ At(i, "file_valid")
    /\ IF \/ ~_is_cache_file_valid(disk[cacheFPath(threads[i].year)], cacheTTL, now)
          \/ threads[i].cal_year = NoDoc
       THEN Goes(i, "download", NoDoc, "none", NoDoc, lock.owner)
       ELSE Leaves(i, "none", threads[i].cal_year)
    /\ UNCHANGED <<_cache_data, disk>>

\* Lines 89, 123-124, 130: cache_year(forced=True), _write_cache, the download.
Download(i, resp) ==
    /\ At(i, "download")
    /\ LET d == _downloadYear(threads[i].year, resp, _cache_data, disk, now) IN
       IF d.exc # "none" THEN Leaves(i, d.exc, NoDoc)
       ELSE Goes(i, "dump", d.val, "none", NoDoc, lock.owner)
    /\ UNCHANGED <<_cache_data, disk>>

\* Lines 131-132: json.dump to the file.
Dump(i) ==
    /\ At(i, "dump")
    /\ disk' = [disk EXCEPT ![cacheFPath(threads[i].year)] =
                   JsonDump(threads[i].cal_year, now)]
    /\ Goes(i, "keep_fetched", threads[i].cal_year, "none", NoDoc, lock.owner)
    /\ UNCHANGED _cache_data

\* Lines 133-134: self._cache_data = calend; return calend.
KeepFetched(i) ==
    /\ At(i, "keep_fetched")
    /\ _cache_data' = threads[i].cal_year
    /\ Leaves(i, "none", threads[i].cal_year)
    /\ UNCHANGED disk

NextC ==
    \E i \in Callers :
        \/ Begin(i)
        \/ MemValid(i)
        \/ YearTest(i)
        \/ ReturnHolder(i)
        \/ GetCache(i)
        \/ KeepLoaded(i)
        \/ FileValid(i)
        \/ \E resp \in Remote(YearOf(i)) : Download(i, resp)
        \/ Dump(i)
        \/ KeepFetched(i)

SpecC == InitC /\ [][NextC]_vars

\* ------------------------------------------------------------- claims

\* C1: with caching enabled, when a _getYear(Y) that had to fetch (neither
\* the holder nor the disk had Y) and succeeded is followed by a second
\* _getYear(Y) before the fetched document's TTL has run out, the second
\* call sends no request and returns the holder's document, the one the
\* first call returned: one network acquisition for the two calls.
C1_TwiceOneFetch ==
    [][\A y \in Years : \A resp \in Responses(y) :
          ( /\ isCache
            /\ last.op = "_getYear" /\ last.year = y
            /\ ~last.holder /\ last.file = "absent"
            /\ last.exc = "none" /\ last.fetches = 1
            /\ last.val.downloaded_dt_utc + cacheTTL >= now
            /\ GetYear(y, resp) )
          => ( /\ last'.fetches = 0
               /\ last.fetches + last'.fetches = 1
               /\ last'.tier = "mem"
               /\ last'.exc = "none"
               /\ last'.val = last.val )]_vars

\* C1's case: the second of two _getYear(Y), the first of which fetched,
\* has been answered by the holder, some time after the fetch.
C1_Witness ==
    /\ isCache
    /\ last.op = "_getYear" /\ last.again
    /\ last.tier = "mem" /\ last.fetches = 0
    /\ last.val = _cache_data
    /\ now > disk[cacheFPath(last.year)].mtime
    /\ now = last.val.downloaded_dt_utc + cacheTTL

\* C2 as amended: with caching enabled, a _getYear(Y) that finds the file of
\* Y older than cacheTTL sends exactly one request; when the fetch succeeds
\* it overwrites the file of Y with the fetched document, the file's
\* modification time becomes the current time, later than the one replaced,
\* and the new document's acquisition timestamp is not older than the
\* replaced one: it is later when cacheTTL is a second or more, and may be
\* the same second when cacheTTL is shorter.
C2_StaleRefetch ==
    [][\A y \in Years : \A resp \in Responses(y) :
          ( /\ isCache
            /\ disk[cacheFPath(y)].exists
            /\ disk[cacheFPath(y)].mtime + cacheTTL < now
            /\ GetYear(y, resp) )
          => ( /\ last'.fetches = 1
               /\ last'.exc = "none" =>
                    /\ disk'[cacheFPath(y)].exists
                    /\ disk'[cacheFPath(y)].data = last'.val
                    /\ disk'[cacheFPath(y)].mtime = now
                    /\ disk'[cacheFPath(y)].mtime > disk[cacheFPath(y)].mtime
                    /\ last'.val.downloaded_dt_utc
                         >= disk[cacheFPath(y)].data.downloaded_dt_utc
                    /\ cacheTTL >= TicksPerSec =>
                         last'.val.downloaded_dt_utc
                           > disk[cacheFPath(y)].data.downloaded_dt_utc )]_vars

\* C2 as claimed: the document that replaces a stale file always carries a
\* newer acquisition timestamp than the one it replaced.
C2_Claimed ==
    [][\A y \in Years : \A resp \in Responses(y) :
          ( /\ isCache
            /\ disk[cacheFPath(y)].exists
            /\ disk[cacheFPath(y)].mtime + cacheTTL < now
            /\ GetYear(y, resp) )
          => ( /\ last'.fetches = 1
               /\ last'.exc = "none" =>
                    /\ disk'[cacheFPath(y)].data = last'.val
                    /\ last'.val.downloaded_dt_utc
                         > disk[cacheFPath(y)].data.downloaded_dt_utc )]_vars

\* C2's case: a _getYear(Y) found the file of Y stale under a TTL of a
\* second, fetched, and the file now holds the new document.
C2_Witness ==
    /\ isCache /\ cacheTTL >= TicksPerSec
    /\ last.op = "_getYear" /\ last.file = "stale"
    /\ last.exc = "none" /\ last.fetches = 1
    /\ disk[cacheFPath(last.year)].data = last.val
    /\ disk[cacheFPath(last.year)].mtime = now

C4_YearMatches ==
    (last.op = "_getYear" /\ last.exc = "none")
        => (last.val # NoDoc /\ last.val.year = last.year)

\* C4's case: the disk answered for Y while the file of the other year,
\* asked for earlier, is there and within its TTL.
C4_Witness ==
    /\ isCache
    /\ last.op = "_getYear" /\ last.exc = "none" /\ last.tier = "disk"
    /\ last.val.year = last.year
    /\ disk[cacheFPath(OtherYear(last.year))].exists
    /\ disk[cacheFPath(OtherYear(last.year))].mtime + cacheTTL >= now

\* C5: with caching enabled, a _getYear(Y) sends no request when the holder
\* has a document of Y whose acquisition timestamp plus cacheTTL is >= now,
\* or the file of Y is there with its modification time plus cacheTTL >=
\* now: it returns a document of Y.  So a request is sent only when both
\* tiers are stale or absent for Y.
C5_NoFetchWhenFresh ==
    [][\A y \in Years : \A resp \in Responses(y) :
          ( /\ isCache
            /\ \/ /\ _cache_data.year = y
                  /\ _cache_data.downloaded_dt_utc + cacheTTL >= now
               \/ /\ disk[cacheFPath(y)].exists
                  /\ disk[cacheFPath(y)].mtime + cacheTTL >= now
            /\ GetYear(y, resp) )
          => ( /\ last'.fetches = 0
               /\ last'.exc = "none"
               /\ last'.tier \in {"mem", "disk"}
               /\ last'.val.year = y
               /\ disk' = disk )]_vars

\* C5's case: with the files of both years within their TTL, a _getYear(Y)
\* that did not find Y in the holder was answered by the disk without a
\* request, and the holder now has Y.
C5_Witness ==
    /\ isCache
    /\ last.op = "_getYear" /\ ~last.holder /\ last.file = "fresh"
    /\ last.tier = "disk" /\ last.fetches = 0
    /\ _cache_data = last.val
    /\ \A y \in Years : /\ disk[cacheFPath(y)].exists
                        /\ disk[cacheFPath(y)].mtime + cacheTTL >= now

\* C6: a _getYear or a forced cache_year sends at most one request, and
\* when it sends one and the remote fails (a transport error or a status
\* other than 200) it raises ProdCalServiceNotRespond and returns nothing.
C6_FailureSurfaces ==
    [][\A y \in Years : \A resp \in Responses(y) :
          (last'.year = y /\ (GetYear(y, resp) \/ CacheYear(y, TRUE, resp)))
          => ( /\ last'.fetches <= 1
               /\ (last'.fetches = 1 /\ RemoteFails(resp)) =>
                    /\ last'.exc = "ProdCalServiceNotRespond"
                    /\ last'.val = NoDoc )]_vars

\* C6's case: a _getYear that needed the remote, over a stale file, ended
\* in ProdCalServiceNotRespond after one request.
C6_Witness ==
    /\ isCache
    /\ last.op = "_getYear" /\ last.file = "stale"
    /\ last.exc = "ProdCalServiceNotRespond"
    /\ last.fetches = 1 /\ last.val = NoDoc

\* C7 as claimed: with caching enabled and a remote that answers well, a
\* _getYear(Y) that does not find Y in the holder and finds the file of Y
\* within its TTL but damaged (no JSON, another year, no month list) fetches
\* once, overwrites the file and returns the fetched document of Y.
C7_Claimed ==
    [][\A y \in Years :
          ( /\ GetYear(y, Response(FALSE, StatusOK, TRUE, TRUE, y, TRUE))
            /\ isCache
            /\ ~HolderBefore(y)
            /\ FileBefore(y) = "corrupt" )
          => ( /\ last'.exc = "none"
               /\ last'.fetches = 1
               /\ last'.val.year = y /\ last'.val.hasMonths
               /\ disk'[cacheFPath(y)].data = last'.val )]_vars

\* C8 as claimed: a call that fetches year Y and gets a JSON document
\* without a year, with another year, or without a month list raises
\* ProdCalError, returns nothing and leaves the holder and the disk alone.
C8_Claimed ==
    [][\A y \in Years : \A resp \in Responses(y) : \A forced \in BOOLEAN :
          ( /\ GetYear(y, resp) \/ CacheYear(y, forced, resp)
            /\ last'.fetches = 1
            /\ ~RemoteFails(resp) /\ resp.json
            /\ ~resp.hasYear \/ resp.year # y \/ ~resp.hasMonths )
          => ( /\ last'.exc = "ProdCalError"
               /\ last'.val = NoDoc
               /\ _cache_data' = _cache_data
               /\ disk' = disk )]_vars

\* C9: with caching disabled, every _getYear sends one request, returns
\* what the download gives (a document stamped now, not one that is held),
\* and leaves the holder and every file as they were; and constructing
\* with caching disabled sends no request and writes nothing.
C9_CacheDisabled ==
    [][ /\ \A y \in Years : \A resp \in Responses(y) :
              (~isCache /\ GetYear(y, resp))
              => ( /\ last'.fetches = 1
                   /\ last'.tier \in {"net", "none"}
                   /\ last'.exc = "none" =>
                        last'.val = [year |-> y,
                                     downloaded_dt_utc |-> CACHE_DWNLD_DT_FORMAT(now),
                                     hasMonths |-> TRUE,
                                     months |-> NormalizedCalendar[y].val]
                   /\ _cache_data' = _cache_data
                   /\ disk' = disk )
        /\ \A p \in Years \cup {0} : \A resp \in Responses(p) :
              Construct(FALSE, p, resp)
              => ( /\ last'.fetches = 0
                   /\ constructed'
                   /\ _cache_data' = NoDoc
                   /\ disk' = disk ) ]_vars

\* C9's case: with caching disabled, a _getYear(Y) fetched although the
\* holder had a document of Y and the file of Y was there, both within
\* their TTL, and returned another document than the one held.
C9_Witness ==
    /\ ~isCache /\ constructed
    /\ last.op = "_getYear" /\ last.holder /\ last.file = "fresh"
    /\ last.exc = "none" /\ last.fetches = 1
    /\ last.val # _cache_data
    /\ disk[cacheFPath(last.year)].data = _cache_data

\* C10: cache_year(Y, forced=True) sends exactly one request whatever the
\* holder and the disk have; when the remote answers well it returns the
\* fetched document of Y, puts it in the holder, and rewrites the file of Y
\* with it (modification time now), leaving the other files alone.
C10_ForcedRefresh ==
    [][\A y \in Years : \A resp \in Responses(y) :
          (last'.year = y /\ CacheYear(y, TRUE, resp))
          => ( /\ last'.fetches = 1
               /\ resp = Response(FALSE, StatusOK, TRUE, TRUE, y, TRUE)
                    => last'.exc = "none"
               /\ last'.exc = "none" =>
                    /\ last'.val.year = y
                    /\ last'.val.downloaded_dt_utc = CACHE_DWNLD_DT_FORMAT(now)
                    /\ _cache_data' = last'.val
                    /\ disk'[cacheFPath(y)] =
                         [exists |-> TRUE, mtime |-> now, parses |-> TRUE,
                          data |-> last'.val]
                    /\ \A z \in Years \ {y} :
                         disk'[cacheFPath(z)] = disk[cacheFPath(z)] )]_vars

\* C10's case: a forced cache_year(Y) fetched and rewrote the file although
\* the holder and the file had Y within its TTL.
C10_Witness ==
    /\ last.op = "cache_year" /\ last.forced
    /\ last.holder /\ last.file = "fresh"
    /\ last.exc = "none" /\ last.fetches = 1
    /\ _cache_data = last.val
    /\ disk[cacheFPath(last.year)].data = last.val
    /\ disk[cacheFPath(last.year)].mtime = now
    /\ now > 0

\* C11: in every reachable state, a cache_year(Y, forced=False), the call
\* the constructor makes for its preload year, sends no request and raises
\* nothing while the file of Y exists and is within cacheTTL, whatever the
\* remote would have answered, and leaves the holder and the disk as they
\* are; when the file is absent or older than cacheTTL it sends exactly one
\* request.
C11_PrimingFetches ==
    \A y \in Years : \A resp \in Responses(y) :
        LET f == disk[cacheFPath(y)]
            o == cache_year(y, FALSE, resp, _cache_data, disk, cacheTTL, now)
        IN  IF f.exists /\ f.mtime + cacheTTL >= now
            THEN /\ o.fetches = 0
                 /\ o.exc = "none"
                 /\ o.mem = _cache_data
                 /\ o.disk = disk
            ELSE o.fetches = 1

\* C11's case: a constructor with caching enabled has primed a year whose
\* file an earlier instance left within its TTL, without a request.
C11_Witness ==
    /\ constructed /\ isCache
    /\ last.op = "init" /\ last.year \in Years
    /\ last.file = "fresh"
    /\ last.fetches = 0 /\ last.exc = "none"
    /\ now > disk[cacheFPath(last.year)].mtime

\* C12: in every reachable state, a date in overrided_dates gets isWorkDay
\* True iff its value is 0 and isHoliday True iff its value is 1, whatever
\* the remote would answer, with no exception, no request and the holder and
\* the disk untouched; a date not in the map gets what it gets from an
\* instance with no overrides, the answer of the document that _getYear
\* resolves for its year.
C12_OverridePrecedence ==
    /\ \A day \in DOMAIN overrided_dates : \A resp \in Responses(day.year) :
          LET w == isWorkDay(day, resp, overrided_dates, isCache, _cache_data,
                             disk, cacheTTL, now)
              h == isHoliday(day, resp, overrided_dates, isCache, _cache_data,
                             disk, cacheTTL, now)
          IN  /\ w.exc = "none" /\ h.exc = "none"
              /\ w.val = (overrided_dates[day] = 0)
              /\ h.val = (overrided_dates[day] = 1)
              /\ w.fetches = 0 /\ h.fetches = 0
              /\ w.mem = _cache_data /\ h.mem = _cache_data
              /\ w.disk = disk /\ h.disk = disk
    /\ \A day \in Dates \ DOMAIN overrided_dates : \A resp \in Remote(day.year) :
          LET w == isWorkDay(day, resp, overrided_dates, isCache, _cache_data,
                             disk, cacheTTL, now)
              y == _getYear(day.year, resp, isCache, _cache_data, disk,
                            cacheTTL, now)
          IN  /\ w = isWorkDay(day, resp, NoOverrides, isCache, _cache_data,
                               disk, cacheTTL, now)
              /\ w.exc = y.exc
              /\ y.exc = "none" => w.val = isWorkDayBy(y.val, day).val

\* C12's case: isWorkDay has said True for a date overridden with 0 that
\* the published calendar lists as non-working, with nothing in the cache.
C12_Witness ==
    /\ constructed /\ isCache
    /\ answer.op = "isWorkDay" /\ answer.exc = "none" /\ answer.val
    /\ answer.day \in DOMAIN overrided_dates
    /\ overrided_dates[answer.day] = 0
    /\ ~isWorkDayBy([NoDoc EXCEPT !.hasMonths = TRUE,
                       !.months = NormalizedCalendar[answer.day.year].val],
                    answer.day).val
    /\ _cache_data = NoDoc
    /\ ~disk[cacheFPath(answer.day.year)].exists

\* C13: in every reachable state, for every date, with the remote answering
\* well or not at all, isHoliday(date) raises what isWorkDay(date) raises and otherwise returns
\* its negation, leaving the cache as isWorkDay leaves it; and so does an
\* isHoliday(date) made right after the isWorkDay(date), in the state that
\* call left, the remote answering the same.
C13_HolidayIsNotWorkDay ==
    \A day \in Dates : \A resp \in Remote(day.year) :
        LET w == isWorkDay(day, resp, overrided_dates, isCache, _cache_data,
                           disk, cacheTTL, now)
            h == isHoliday(day, resp, overrided_dates, isCache, _cache_data,
                           disk, cacheTTL, now)
            after == isHoliday(day, resp, overrided_dates, isCache, w.mem,
                               w.disk, cacheTTL, now)
        IN  /\ h.exc = w.exc /\ after.exc = w.exc
            /\ h.mem = w.mem /\ h.disk = w.disk
            /\ w.exc = "none" => (h.val = ~w.val /\ after.val = ~w.val)

\* C13's case: isHoliday has said True of a Saturday or Sunday of a month
\* that the document of its year, now in the holder, does not have.
C13_Witness ==
    /\ constructed /\ isCache
    /\ answer.op = "isHoliday" /\ answer.exc = "none" /\ answer.val
    /\ answer.day \notin DOMAIN overrided_dates
    /\ _cache_data.year = answer.day.year
    /\ \A i \in DOMAIN _cache_data.months :
          _cache_data.months[i].month # answer.day.month
    /\ weekday(answer.day) >= 5

\* C14: in every reachable state with caching enabled, when the holder is
\* empty or holds another year and the file of Y, written by a fetch, is
\* within cacheTTL, _getYear(Y) is answered from the disk with no request,
\* whatever the remote would answer, and the document it returns gives for
\* every date of Y the isWorkDay answer of the document that the fetch at
\* the file's modification time produced.
C14_RoundTrip ==
    \A y \in Years : \A resp \in Responses(y) :
        LET f == disk[cacheFPath(y)]
            g == _getYear(y, resp, isCache, _cache_data, disk, cacheTTL, now)
            fetched == _downloadYear(y, Response(FALSE, StatusOK, TRUE, TRUE, y, TRUE),
                                     NoDoc, disk, f.mtime).val
        IN  ( /\ isCache
              /\ _cache_data = NoDoc \/ _cache_data.year # y
              /\ f.exists /\ f.mtime + cacheTTL >= now )
            => ( /\ g.exc = "none" /\ g.tier = "disk" /\ g.fetches = 0
                 /\ g.mem = g.val /\ g.disk = disk
                 /\ \A day \in Dates :
                       day.year = y =>
                         isWorkDayBy(g.val, day) = isWorkDayBy(fetched, day) )

\* C14's case: a _getYear that did not find its year in the holder has been
\* answered by the file a fetch had written earlier, with a document that
\* has non-working days.
C14_Witness ==
    /\ constructed /\ isCache
    /\ last.op = "_getYear" /\ last.exc = "none"
    /\ ~last.holder /\ last.file = "fresh"
    /\ last.tier = "disk" /\ last.fetches = 0
    /\ now > disk[cacheFPath(last.year)].mtime
    /\ \E day \in Dates : day.year = last.year /\ ~isWorkDayBy(last.val, day).val
    /\ \E day \in Dates : day.year = last.year /\ isWorkDayBy(last.val, day).val

\* C15 as claimed: the normalisation of a month's list of days succeeds
\* for every list of well-formed days, the empty one included, and gives,
\* in order, the number of each day that does not end in '*': "9+" gives 9,
\* "3" gives 3, "14*" gives nothing.
C15_Claimed ==
    \A ps \in PieceLists :
        (entry.exc # "pending" /\ entry.days = join(ps, ","))
        => LET kept == SelectSeq(ps, LAMBDA x : x[Len(x)] # "*")
           IN  /\ entry.exc = "none"
               /\ entry.days_int =
                    [i \in DOMAIN kept |-> int(SelectSeq(kept[i], isdigit))]

\* C16 as claimed: in every reachable state where the holder does not
\* answer for Y, a cache_year(Y, forced=False) returns the document and
\* leaves the holder and the disk as a _getYear(Y) of an instance with
\* caching enabled does: from a file of Y within cacheTTL the document is put
\* in the holder and returned, otherwise it is fetched, written and put in
\* the holder.
C16_Claimed ==
    \A y \in Years : \A resp \in Responses(y) :
        LET p == cache_year(y, FALSE, resp, _cache_data, disk, cacheTTL, now)
            g == _getYear(y, resp, TRUE, _cache_data, disk, cacheTTL, now)
        IN  ~(_is_cache_mem_data_valid(_cache_data, cacheTTL, now)
              /\ _cache_data.year = y)
            => ( /\ p.mem = g.mem
                 /\ p.disk = g.disk
                 /\ p.exc = g.exc
                 /\ p.val = g.val )

\* C17 as claimed: in every reachable state, for the document of a year
\* that a fetch wrote to its file, the test of the holder on the document's
\* downloaded_dt_utc and the test of the file on its modification time give
\* the same answer, and a file written at this instant is never stale.
C17_Claimed ==
    \A y \in Years :
        LET f == disk[cacheFPath(y)] IN
        f.exists =>
            /\ _is_cache_mem_data_valid(f.data, cacheTTL, now)
                 = _is_cache_file_valid(f, cacheTTL, now)
            /\ f.mtime = now => _is_cache_file_valid(f, cacheTTL, now)

\* C18: a call (the constructor's priming, _getYear, cache_year forced or
\* not) that ends in ProdCalServiceNotRespond or ProdCalError leaves the
\* holder and every file, the stale file of the year asked for included, as
\* they were before it, so that the calls that follow start from the state
\* the failed call found.
C18_FailureKeepsCache ==
    [][ ( /\ last'.exc \in {"ProdCalServiceNotRespond", "ProdCalError"}
          /\ last'.fetches > 0 )
        => ( /\ _cache_data' = _cache_data
             /\ disk' = disk
             /\ last'.val = NoDoc ) ]_vars

\* C18's case: a _getYear over a stale file got a document it rejected
\* (ProdCalError); the stale file is still there and the holder still has
\* the document it had.
C18_Witness ==
    /\ constructed /\ isCache
    /\ last.op = "_getYear" /\ last.file = "stale"
    /\ last.exc = "ProdCalError" /\ last.fetches = 1
    /\ disk[cacheFPath(last.year)].exists
    /\ disk[cacheFPath(last.year)].mtime + cacheTTL < now
    /\ _cache_data # NoDoc

\* C19: with the program as the only writer of its files, the holder is
\* always empty or holds the document of one year whose file exists and
\* contains that same document; a call that fetched with success while the
\* cache is in use has put the document in the holder and in the file of
\* its year, written at this instant; and a call answered by the disk has
\* put the file's document in the holder and written no file.
C19_HolderMatchesFile ==
    /\ [](\/ _cache_data = NoDoc
          \/ /\ _cache_data.year \in Years
             /\ disk[cacheFPath(_cache_data.year)].exists
             /\ disk[cacheFPath(_cache_data.year)].data = _cache_data)
    /\ [][ /\ ( /\ now' = now
                /\ last'.exc = "none" /\ last'.fetches > 0
                /\ last'.op \in {"init", "cache_year"} \/ isCache' )
              => ( /\ _cache_data' = last'.val
                   /\ disk'[cacheFPath(last'.year)] =
                        [exists |-> TRUE, mtime |-> now, parses |-> TRUE,
                         data |-> last'.val] )
          /\ ( /\ now' = now
                /\ last'.exc = "none" /\ last'.tier = "disk" )
              => ( /\ _cache_data' = last'.val
                   /\ disk' = disk ) ]_vars

\* C19's case: with the files of both years written, a _getYear has been
\* answered by the file of its year, written at an earlier time, and the
\* holder now has that file's document.
C19_Witness ==
    /\ constructed /\ isCache
    /\ last.op = "_getYear" /\ last.exc = "none" /\ last.tier = "disk"
    /\ _cache_data = disk[cacheFPath(last.year)].data
    /\ _cache_data.year = last.year
    /\ disk[cacheFPath(last.year)].mtime < now
    /\ \A y \in Years : disk[cacheFPath(y)].exists

\* C20: when the two callers put each _getYear under one lock of their own,
\* no call ever returns a document of another year than the one it asked
\* for.  (Without the lock such a return is reachable: C20_Witness.)
C20_SerializedYearMatches ==
    lock.used =>
        \A i \in DOMAIN threads :
            (threads[i].pc = "idle" /\ threads[i].ret # NoDoc)
            => threads[i].ret.year = threads[i].year

\* C20's case: with no lock, a caller got from line 85 the document of the
\* other caller's year, which that caller put in the holder between this
\* caller's tests of line 84 and its return.
C20_Witness ==
    /\ ~lock.used
    /\ \E i \in DOMAIN threads :
          /\ threads[i].pc = "idle" /\ threads[i].exc = "none"
          /\ threads[i].ret # NoDoc
          /\ threads[i].ret.year # threads[i].year
          /\ threads[i].ret = _cache_data

====
